---- MODULE Spec2Model ----
(***************************************************************************)
(* Model of the URL shortener core: UrlLinkService.create (bounded retry   *)
(* over generated short codes), get_by_code, the routes get_link /         *)
(* get_link_details / create_link, the request-scoped database session     *)
(* (Database.session / get_db_session) and the background click increment  *)
(* (perform_click_increment).  The table "urllinks" is modelled with       *)
(* committed rows plus the uncommitted work of every open session.         *)
(***************************************************************************)
EXTENDS Integers, Sequences, FiniteSets, TLC

\* ---------------------------------------------------------------- bounds
MaxReq == 2          \* number of HTTP requests served in one behaviour
NumCodes == 2        \* number of distinct outcomes of the random source
MaxFailures == 1     \* number of store calls that may fail in one behaviour
MaxNumber == 130     \* largest integer handed to encode_base62
MaxNegative == 2     \* encode_base62 is tried down to -MaxNegative
MaxTextLen == 2      \* longest string handed to decode_base62 directly
MaxLength == 2       \* largest length handed to generate_short_code directly

\* ------------------------------------------------------ program constants
attempts_one == 5 - 4
attempts_six == 5 + 1
attempts == 5        \* retry budget of UrlLinkService.create
DefaultLength == 6   \* default length of generate_short_code
BASE == 62           \* BASE of utils/codec.py
ColumnLimit == 25    \* String(25) of UrlLink.short_code

CHARSET ==
  << "2","3","4","5","6","7","8","9",
     "a","b","c","d","e","f","g","h","j","k","m","n","p","q","r","s","t",
     "u","v","w","x","y","z",
     "A","B","C","D","E","F","G","H","J","K","M","N","P","Q","R","S","T",
     "U","V","W","X","Y","Z" >>

Req == 1..MaxReq

Urls == {"https://example.com/a/b", "https://example.com/c"}

\* The codes the generator can return for a given length.  Every character
\* is CHARSET[choice]; the random source is bounded to NumCodes outcomes,
\* each repeated for the whole code.
generate_short_code_longer(length) ==
  { [i \in 1..(length + 1) |-> CHARSET[k]] : k \in 1..NumCodes }

generate_short_code(length) ==
  { [i \in 1..length |-> CHARSET[k]] : k \in 1..NumCodes }

Codes == generate_short_code(DefaultLength)

\* format_short_url(short_code, request): base_url without its trailing
\* slash, "/", short_code.  Modelled as the pair the f-string joins.
format_short_url(short_code, request) ==
  [base_url |-> request, short_code |-> short_code]

\* A call of format_short_url with the positional arguments args: Python
\* raises TypeError when a required positional argument is missing.
call_format_short_url(args) ==
  IF Len(args) = 2
    THEN [exc |-> "none", value |-> {format_short_url(args[1], args[2])}]
    ELSE [exc |-> "TypeError", value |-> {}]

\* Row of table urllinks as the model UrlLink builds it: click_count default 0.
UrlLink_negative(id, original_url, short_code) ==
  [id |-> id, original_url |-> original_url, short_code |-> short_code,
   click_count |-> 0 - 1]

UrlLink(id, original_url, short_code) ==
  [id |-> id, original_url |-> original_url, short_code |-> short_code,
   click_count |-> 0]

unique_violation_unchecked(rows, short_code) == FALSE

\* unique=True on UrlLink.short_code: an INSERT of short_code conflicts with
\* a row of rows that already has it.
unique_violation(rows, short_code) ==
  \E l \in rows : l.short_code = short_code

\* The exception handlers registered by setup_exception_handlers.
exception_handler_general(exc) ==
  [status |-> 500, type |-> "unhandled_server_error"]

exception_handler(exc) ==
  CASE exc = "ConflictException" -> [status |-> 409, type |-> "urllink_conflict"]
    [] exc = "NotFoundException" -> [status |-> 404, type |-> "urllink_not_found"]
    [] OTHER -> [status |-> 500, type |-> "unhandled_server_error"]

NoResponse ==
  [status |-> 0, type |-> "", short_code |-> <<>>, original_url |-> "",
   short_url |-> {}, click_count |-> -1]

NewSession ==
  [state |-> "none", added |-> {}, incs |-> {}, rolled_back |-> FALSE,
   closes |-> 0]

\* AsyncSession.rollback: the uncommitted work of the session is discarded.
rollback(s) == [s EXCEPT !.added = {}, !.incs = {}, !.rolled_back = TRUE]

close_left_open(s) == [s EXCEPT !.added = {}, !.incs = {}]

close_keeps_work(s) == [s EXCEPT !.state = "closed", !.closes = @ + 1]

\* AsyncSession.close: the connection is released, an open transaction is
\* discarded with it.
close(s) ==
  [s EXCEPT !.added = {}, !.incs = {}, !.state = "closed", !.closes = @ + 1]

session_block_exit_close_only(s, exc) == close(s)

\* Database.session leaving its block with the exception exc ("none" on a
\* normal exit): except -> rollback, re-raise; finally -> close.
session_block_exit(s, exc) ==
  IF exc # "none" THEN close(rollback(s)) ELSE close(s)

create_exhausted_integrity == "IntegrityError"

\* The exception UrlLinkService.create raises after the loop.
create_exhausted == "ConflictException"

NewRequest ==
  [kind |-> "idle", pc |-> "idle", url |-> "", code |-> <<>>, attempt |-> 0,
   short_code |-> <<>>, exc |-> "none", svc |-> "none", result |-> {},
   response |-> NoResponse, generated |-> 0, checked |-> 0,
   discarded |-> {}, store_failed |-> FALSE, written |-> {}]

NewBackground ==
  [queue |-> <<>>, scheduled |-> <<>>, pc |-> "idle", results |-> <<>>]

VARIABLES
  links,          \* committed rows of table urllinks
  next_id,        \* next value of the id sequence
  req,            \* per request: route/service locals and position
  session,        \* per request: the AsyncSession of get_db_session
  background,     \* per request: BackgroundTasks queue and its runner
  task_session,   \* per request: the session of perform_click_increment
  failures,       \* store calls that have failed so far
  db,             \* the module-level Database object: engine, session_factory
  lifespan,       \* position of the application's lifespan context
  codec,          \* one use of utils/codec.py: input and results
  gen             \* one call of generate_short_code: argument and result

vars == <<links, next_id, req, session, background, task_session, failures,
          db, lifespan, codec, gen>>

\* No call of generate_short_code has been made.
NewGen == [pc |-> "idle", length |-> 0, exc |-> "none", value |-> <<>>]

\* Database.__init__: no engine, no session factory.
NewDatabase == [engine |-> FALSE, session_factory |-> FALSE]

\* Database.connect up to its first await: both attributes are assigned.
connect_assign(d) == [d EXCEPT !.engine = TRUE, !.session_factory = TRUE]

disconnect_engine_only(d) == [d EXCEPT !.engine = FALSE]

disconnect_skipped(d) == d

\* Database.disconnect: with an engine, dispose it and reset both attributes.
disconnect(d) == IF d.engine THEN NewDatabase ELSE d

\* No codec call has been made.
NewCodec == [pc |-> "idle", number |-> 0, text |-> <<>>,
             encoded |-> [exc |-> "none", value |-> <<>>],
             decoded |-> [exc |-> "none", value |-> 0]]

\* The rows, requests and sessions of an application that serves nothing yet.
\* The store holds the links of n earlier, completed create calls.
StoreInit ==
  /\ \E n \in 0..NumCodes :
       /\ links = { UrlLink(k, "https://example.com/a/b",
                            [i \in 1..DefaultLength |-> CHARSET[k]]) : k \in 1..n }
       /\ next_id = n + 1
  /\ req = [r \in Req |-> NewRequest]
  /\ session = [r \in Req |-> NewSession]
  /\ background = [r \in Req |-> NewBackground]
  /\ task_session = [r \in Req |-> NewSession]
  /\ failures = 0
  /\ codec = NewCodec
  /\ gen = NewGen

\* The application in service: the lifespan has connected the database.
Init ==
  /\ StoreInit
  /\ db = connect_assign(NewDatabase)
  /\ lifespan = "running"

\* A store call may fail while the failure budget lasts.
CanFail == failures < MaxFailures

\* Rows the open sessions of the other requests have inserted, uncommitted.
OtherAdded(r) ==
  UNION { session[q].added : q \in Req \ {r} }

\* Row ids the increment sessions of the other requests hold locked.
OtherLocked(r) ==
  { l.id : l \in UNION { task_session[q].incs : q \in Req \ {r} } }

\* ------------------------------------------------------------- requests
\* Database.session up to its yield: RuntimeError without a session factory,
\* otherwise a new session from session_factory().
session_enter(d) ==
  IF ~d.session_factory
    THEN [exc |-> "RuntimeError", session |-> NewSession]
    ELSE [exc |-> "none", session |-> [NewSession EXCEPT !.state = "open"]]

\* A request arrives; the dependency get_db_session opens its session
\* (Database.session).  Without a session the endpoint is never called and
\* the RuntimeError is answered by the exception handler.
Start(r) ==
  /\ req[r].pc = "idle"
  /\ IF r = 1 THEN TRUE ELSE req[r - 1].pc # "idle"
  /\ LET entered == session_enter(db)
         failed == entered.exc # "none"
         answer == [NoResponse EXCEPT
                      !.status = exception_handler(entered.exc).status,
                      !.type = exception_handler(entered.exc).type]
     IN /\ \/ \E u \in Urls :
                req' = [req EXCEPT
                          ![r].kind = "create", ![r].url = u,
                          ![r].pc = IF failed THEN "done" ELSE "create",
                          ![r].exc = entered.exc,
                          ![r].response = IF failed THEN answer ELSE @]
           \/ \E k \in {"resolve", "details"}, c \in Codes :
                req' = [req EXCEPT
                          ![r].kind = k, ![r].code = c,
                          ![r].pc = IF failed THEN "done" ELSE "get_by_code",
                          ![r].exc = entered.exc,
                          ![r].response = IF failed THEN answer ELSE @]
        /\ session' = [session EXCEPT ![r] = entered.session]
  /\ UNCHANGED <<links, next_id, background, task_session, failures>>
  /\ UNCHANGED <<db, lifespan, codec, gen>>

\* UrlLinkRepository.is_exists(db_session, short_code == c): TRUE iff a
\* committed row has the code.
is_exists(rows, c) == \E l \in rows : l.short_code = c

\* UrlLinkService.create, one iteration up to the existence check: generate a
\* candidate, await is_exists; on a hit `continue`, and after the last
\* iteration raise ConflictException.
create_attempt(r) ==
  /\ req[r].pc = "create"
  /\ req[r].attempt < attempts
  /\ \E c \in generate_short_code(DefaultLength) :
       LET counted == [req EXCEPT ![r].short_code = c,
                                  ![r].generated = @ + 1,
                                  ![r].checked = @ + 1]
       IN \/ /\ is_exists(links, c)
             /\ req' = [counted EXCEPT
                          ![r].discarded = @ \cup {c},
                          ![r].attempt = @ + 1,
                          ![r].pc = IF req[r].attempt + 1 < attempts
                                      THEN "create" ELSE "session_exit",
                          ![r].svc = IF req[r].attempt + 1 < attempts
                                      THEN "none" ELSE create_exhausted,
                          ![r].exc = IF req[r].attempt + 1 < attempts
                                      THEN "none" ELSE create_exhausted]
             /\ UNCHANGED failures
          \/ /\ ~is_exists(links, c)
             /\ req' = [counted EXCEPT ![r].pc = "repository_create"]
             /\ UNCHANGED failures
          \/ /\ CanFail
             /\ req' = [counted EXCEPT ![r].pc = "session_exit",
                                       ![r].svc = "DBAPIError",
                                       ![r].exc = "DBAPIError",
                                       ![r].store_failed = TRUE]
             /\ failures' = failures + 1
  /\ UNCHANGED <<links, next_id, session, background, task_session>>
  /\ UNCHANGED <<db, lifespan, codec, gen>>

\* UrlLinkRepository.create: add, flush (the INSERT, checked against the
\* unique constraint; it waits while another open transaction has inserted
\* the same code), refresh.
repository_create(r) ==
  /\ req[r].pc = "repository_create"
  /\ LET c == req[r].short_code
         new_link == UrlLink(next_id, req[r].url, c)
     IN \/ /\ unique_violation(links, c)
           /\ req' = [req EXCEPT ![r].pc = "rollback", ![r].exc = "IntegrityError"]
           /\ UNCHANGED <<session, next_id, failures>>
        \/ /\ ~unique_violation(links, c)
           /\ ~unique_violation(OtherAdded(r), c)
           /\ session' = [session EXCEPT ![r].added = @ \cup {new_link}]
           /\ next_id' = next_id + 1
           /\ \/ /\ req' = [req EXCEPT ![r].pc = "commit",
                                       ![r].result = {new_link},
                                       ![r].written = @ \cup {new_link.id}]
                 /\ UNCHANGED failures
              \/ /\ CanFail
                 /\ req' = [req EXCEPT ![r].pc = "rollback",
                                       ![r].exc = "DBAPIError",
                                       ![r].store_failed = TRUE,
                                       ![r].written = @ \cup {new_link.id}]
                 /\ failures' = failures + 1
        \/ /\ CanFail
           /\ req' = [req EXCEPT ![r].pc = "rollback", ![r].exc = "DBAPIError",
                                 ![r].store_failed = TRUE]
           /\ failures' = failures + 1
           /\ UNCHANGED <<session, next_id>>
  /\ UNCHANGED <<links, background, task_session>>
  /\ UNCHANGED <<db, lifespan, codec, gen>>

\* create_link after UrlLinkService.create returned new_link: build the
\* UrlLinkResponseSchema.
create_link_response(new_link) ==
  LET short_url == call_format_short_url(<<new_link.short_code>>)
  IN IF short_url.exc = "none"
       THEN [exc |-> "none",
             response |-> [status |-> 201, type |-> "",
                           short_code |-> new_link.short_code,
                           original_url |-> new_link.original_url,
                           short_url |-> short_url.value,
                           click_count |-> -1]]
       ELSE [exc |-> short_url.exc, response |-> NoResponse]

commit_inserts_lost(rows, added) == rows

\* COMMIT of a session that has inserted the rows added.
commit_inserts(rows, added) == rows \cup added

\* UrlLinkService.create: await db_session.commit(), return new_link; the
\* route create_link then builds its response without suspending.
create_commit(r) ==
  /\ req[r].pc = "commit"
  /\ \/ /\ links' = commit_inserts(links, session[r].added)
        /\ session' = [session EXCEPT ![r].added = {}]
        /\ LET new_link == CHOOSE l \in req[r].result : TRUE
               out == create_link_response(new_link)
           IN req' = [req EXCEPT ![r].pc = "session_exit",
                                 ![r].svc = "returned",
                                 ![r].exc = out.exc,
                                 ![r].response = out.response]
        /\ UNCHANGED failures
     \/ /\ CanFail
        /\ req' = [req EXCEPT ![r].pc = "rollback", ![r].exc = "DBAPIError",
                              ![r].store_failed = TRUE]
        /\ failures' = failures + 1
        /\ UNCHANGED <<links, session>>
  /\ UNCHANGED <<next_id, background, task_session>>
  /\ UNCHANGED <<db, lifespan, codec, gen>>

\* UrlLinkService.create, except branch: await db_session.rollback(); raise exc.
create_rollback(r) ==
  /\ req[r].pc = "rollback"
  /\ session' = [session EXCEPT ![r] = rollback(@)]
  /\ req' = [req EXCEPT ![r].pc = "session_exit", ![r].svc = req[r].exc]
  /\ UNCHANGED <<links, next_id, background, task_session, failures>>
  /\ UNCHANGED <<db, lifespan, codec, gen>>

get_by_filter_unfiltered(rows, code) == rows

\* UrlLinkRepository.get_by_filter(short_code == code), limit 1: the rows
\* the SELECT can return.
get_by_filter(rows, code) == { l \in rows : l.short_code = code }

get_link_response_raises(link) ==
  [exc |-> "TypeError", tasks |-> <<link.short_code>>, response |-> NoResponse]

get_link_response_no_task(link) ==
  [exc |-> "none",
   tasks |-> <<>>,
   response |-> [status |-> 307, type |-> "", short_code |-> <<>>,
                 original_url |-> link.original_url, short_url |-> {},
                 click_count |-> -1]]

get_link_response_two_tasks(link) ==
  [exc |-> "none",
   tasks |-> <<link.short_code, link.short_code>>,
   response |-> [status |-> 307, type |-> "", short_code |-> <<>>,
                 original_url |-> link.original_url, short_url |-> {},
                 click_count |-> -1]]

\* get_link after get_by_code returned link: add the increment task to
\* BackgroundTasks and redirect to link.original_url.
get_link_response(link) ==
  [exc |-> "none",
   tasks |-> <<link.short_code>>,
   response |-> [status |-> 307, type |-> "", short_code |-> <<>>,
                 original_url |-> link.original_url, short_url |-> {},
                 click_count |-> -1]]

get_link_details_response_counted(link) ==
  LET short_url == call_format_short_url(<<link.short_code>>)
  IN [exc |-> short_url.exc, tasks |-> <<link.short_code>>,
      response |-> NoResponse]

\* get_link_details after get_by_code returned link: build the
\* UrlLinkDetailsResponseSchema.
get_link_details_response(link) ==
  LET short_url == call_format_short_url(<<link.short_code>>)
  IN IF short_url.exc = "none"
       THEN [exc |-> "none", tasks |-> <<>>,
             response |-> [status |-> 200, type |-> "",
                           short_code |-> link.short_code,
                           original_url |-> link.original_url,
                           short_url |-> short_url.value,
                           click_count |-> link.click_count]]
       ELSE [exc |-> short_url.exc, tasks |-> <<>>, response |-> NoResponse]

\* UrlLinkService.get_by_code awaited by get_link or get_link_details: the
\* SELECT, NotFoundException when it returns None, else the route's response.
get_by_code(r) ==
  /\ req[r].pc = "get_by_code"
  /\ \/ /\ get_by_filter(links, req[r].code) = {}
        /\ req' = [req EXCEPT ![r].pc = "session_exit",
                              ![r].svc = "NotFoundException",
                              ![r].exc = "NotFoundException"]
        /\ UNCHANGED <<background, failures>>
     \/ /\ \E link \in get_by_filter(links, req[r].code) :
             LET out == IF req[r].kind = "resolve"
                          THEN get_link_response(link)
                          ELSE get_link_details_response(link)
             IN /\ req' = [req EXCEPT ![r].pc = "session_exit",
                                      ![r].svc = "returned",
                                      ![r].result = {link},
                                      ![r].exc = out.exc,
                                      ![r].response = out.response]
                /\ background' = [background EXCEPT
                                     ![r].queue = @ \o out.tasks,
                                     ![r].scheduled = @ \o out.tasks]
        /\ UNCHANGED failures
     \/ /\ CanFail
        /\ req' = [req EXCEPT ![r].pc = "session_exit", ![r].svc = "DBAPIError",
                              ![r].exc = "DBAPIError", ![r].store_failed = TRUE]
        /\ failures' = failures + 1
        /\ UNCHANGED background
  /\ UNCHANGED <<links, next_id, session, task_session>>
  /\ UNCHANGED <<db, lifespan, codec, gen>>

\* Database.session leaving its block for get_db_session: on an exception
\* rollback and re-raise (the exception handler then answers), always close.
session_exit(r) ==
  /\ req[r].pc = "session_exit"
  /\ session' = [session EXCEPT ![r] = session_block_exit(@, req[r].exc)]
  /\ req' = [req EXCEPT
               ![r].pc = "done",
               ![r].response =
                  IF req[r].exc = "none" THEN @
                  ELSE [NoResponse EXCEPT
                          !.status = exception_handler(req[r].exc).status,
                          !.type = exception_handler(req[r].exc).type]]
  /\ UNCHANGED <<links, next_id, background, task_session, failures>>
  /\ UNCHANGED <<db, lifespan, codec, gen>>

\* ------------------------------------------------------ background task
\* UrlLinkRepository.increment_click_count(session, short_code): the UPDATE
\* click_count = click_count + 1 on the rows of the code, computed by the store
\* from the committed rows; the result is the session's uncommitted versions.
increment_click_count(rows, short_code) ==
  { [l EXCEPT !.click_count = @ + 1] : l \in get_by_filter(rows, short_code) }

row_locked_never(ids, locked) == FALSE

\* The UPDATE waits while another open transaction holds one of its rows.
row_locked(ids, locked) == ids \cap locked # {}

commit_updates_replace(rows, updated) == updated

\* COMMIT of a session with the updated row versions updated.
commit_updates(rows, updated) ==
  { l \in rows : l.id \notin { u.id : u \in updated } } \cup updated

perform_click_increment_session_shared(request_session, d) ==
  [exc |-> "none", session |-> request_session]

\* async with db.session() as session in perform_click_increment: the task
\* asks the Database object for a session and takes none from its caller.
perform_click_increment_session(request_session, d) == session_enter(d)

\* BackgroundTasks starts the next task once the response has been produced:
\* perform_click_increment enters db.session(), a session of its own.  The
\* async with statement stands before the try block, so an exception of
\* Database.session leaves perform_click_increment and ends the task.
task_start(r) ==
  /\ background[r].pc = "idle"
  /\ background[r].queue # <<>>
  /\ req[r].response.status # 0
  /\ LET entered == perform_click_increment_session(session[r], db)
     IN IF entered.exc = "none"
          THEN /\ background' = [background EXCEPT ![r].pc = "increment"]
               /\ task_session' = [task_session EXCEPT ![r] = entered.session]
          ELSE /\ background' = [background EXCEPT
                                   ![r].queue = Tail(@),
                                   ![r].results = Append(@, entered.exc)]
               /\ UNCHANGED task_session
  /\ UNCHANGED <<links, next_id, req, session, failures>>
  /\ UNCHANGED <<db, lifespan, codec, gen>>

\* await self.repository.increment_click_count(session, short_code); an
\* exception is logged and dropped.
task_increment(r) ==
  /\ background[r].pc = "increment"
  /\ LET updated == increment_click_count(links, Head(background[r].queue))
     IN \/ /\ ~row_locked({ l.id : l \in updated }, OtherLocked(r))
           /\ task_session' = [task_session EXCEPT ![r].incs = updated]
           /\ background' = [background EXCEPT ![r].pc = "commit"]
           /\ UNCHANGED failures
        \/ /\ CanFail
           /\ background' = [background EXCEPT ![r].pc = "exit",
                                               ![r].results = Append(@, "failed")]
           /\ failures' = failures + 1
           /\ UNCHANGED task_session
  /\ UNCHANGED <<links, next_id, req, session>>
  /\ UNCHANGED <<db, lifespan, codec, gen>>

\* await session.commit() of perform_click_increment; an exception is logged
\* and dropped.
task_commit(r) ==
  /\ background[r].pc = "commit"
  /\ \/ /\ links' = commit_updates(links, task_session[r].incs)
        /\ task_session' = [task_session EXCEPT ![r].incs = {}]
        /\ background' = [background EXCEPT ![r].pc = "exit",
                                            ![r].results = Append(@, "ok")]
        /\ UNCHANGED failures
     \/ /\ CanFail
        /\ background' = [background EXCEPT ![r].pc = "exit",
                                            ![r].results = Append(@, "failed")]
        /\ failures' = failures + 1
        /\ UNCHANGED <<links, task_session>>
  /\ UNCHANGED <<next_id, req, session>>
  /\ UNCHANGED <<db, lifespan, codec, gen>>

\* Database.session leaving the block of perform_click_increment: the
\* exception was dropped inside the block, so the exit is a normal one.
task_exit(r) ==
  /\ background[r].pc = "exit"
  /\ task_session' = [task_session EXCEPT ![r] = session_block_exit(@, "none")]
  /\ background' = [background EXCEPT ![r].pc = "idle", ![r].queue = Tail(@)]
  /\ UNCHANGED <<links, next_id, req, session, failures>>
  /\ UNCHANGED <<db, lifespan, codec, gen>>

Next ==
  \E r \in Req :
    \/ Start(r)
    \/ create_attempt(r)
    \/ repository_create(r)
    \/ create_commit(r)
    \/ create_rollback(r)
    \/ get_by_code(r)
    \/ session_exit(r)
    \/ task_start(r)
    \/ task_increment(r)
    \/ task_commit(r)
    \/ task_exit(r)

Spec == Init /\ [][Next]_vars

\* Every step of request r after its arrival: the event loop resumes each
\* ready coroutine and the store answers each call.
Serve(r) ==
  \/ create_attempt(r)
  \/ repository_create(r)
  \/ create_commit(r)
  \/ create_rollback(r)
  \/ get_by_code(r)
  \/ session_exit(r)
  \/ task_start(r)
  \/ task_increment(r)
  \/ task_commit(r)
  \/ task_exit(r)

FairSpec == Spec /\ \A r \in Req : WF_vars(Serve(r))

\* ------------------------------------------------------------- lifespan
\* lifespan: await db.connect() up to the await of _verify_connection.
lifespan_connect ==
  /\ lifespan = "init"
  /\ db' = connect_assign(db)
  /\ lifespan' = "verify"
  /\ UNCHANGED <<links, next_id, req, session, background, task_session,
               failures, codec, gen>>

\* Database._verify_connection: SELECT 1 succeeds and the application is
\* started, or fails with RuntimeError, which lifespan re-raises.
lifespan_verify ==
  /\ lifespan = "verify"
  /\ \/ lifespan' = "running"
     \/ lifespan' = "failed"
  /\ UNCHANGED db
  /\ UNCHANGED <<links, next_id, req, session, background, task_session,
               failures, codec, gen>>

\* The server ends the application: lifespan resumes after its yield, or
\* an exception of the running application is thrown into it at the yield
\* (except branch: log, raise exc).
lifespan_shutdown ==
  /\ lifespan = "running"
  /\ \/ lifespan' = "stopping"
     \/ lifespan' = "raising"
  /\ UNCHANGED db
  /\ UNCHANGED <<links, next_id, req, session, background, task_session,
               failures, codec, gen>>

\* The finally block of lifespan: await db.disconnect().
lifespan_disconnect ==
  /\ lifespan \in {"failed", "stopping", "raising"}
  /\ db' = disconnect(db)
  /\ lifespan' = CASE lifespan = "failed" -> "aborted"
                   [] lifespan = "raising" -> "crashed"
                   [] OTHER -> "stopped"
  /\ UNCHANGED <<links, next_id, req, session, background, task_session,
               failures, codec, gen>>

\* The positions of lifespan after its finally block.
Ended == {"stopped", "aborted", "crashed", "disconnected_again"}

\* db.disconnect() is called once more after the lifespan has ended.
disconnect_again ==
  /\ lifespan \in Ended \ {"disconnected_again"}
  /\ db' = disconnect(db)
  /\ lifespan' = "disconnected_again"
  /\ UNCHANGED <<links, next_id, req, session, background, task_session,
               failures, codec, gen>>

\* The process from its start: the Database object as constructed.
LifeInit ==
  /\ StoreInit
  /\ db = NewDatabase
  /\ lifespan = "init"

\* Requests and tasks at any point of the lifespan: the server (or a test
\* client used without the lifespan) decides when each of them runs.
LifeNext ==
  \/ Next
  \/ lifespan_connect
  \/ lifespan_verify
  \/ lifespan_shutdown
  \/ lifespan_disconnect
  \/ disconnect_again

LifeSpec == LifeInit /\ [][LifeNext]_vars

\* Every await of the lifespan's finally block returns.
FairLifeSpec == LifeSpec /\ WF_vars(lifespan_disconnect)

\* ---------------------------------------------------------------- codec
\* Strings are sequences of characters; CHARSET of utils/codec.py is the
\* same string as CHARSET of utils/short_code_generator.py.
InCharset(char) == \E i \in 1..Len(CHARSET) : CHARSET[i] = char

\* CHARSET_MAP[char]: the index of char in CHARSET, counted from 0.
CHARSET_MAP(char) == CHOOSE i \in 0..(Len(CHARSET) - 1) : CHARSET[i + 1] = char

\* The while loop of encode_base62; CHARSET[char_index] raises IndexError
\* for an index past the end of the string.
RECURSIVE encode_loop(_, _)
encode_loop(number, encoded_str) ==
  IF number > 0
    THEN LET char_index == number % BASE
         IN IF char_index >= Len(CHARSET)
              THEN [exc |-> "IndexError", value |-> <<>>]
              ELSE encode_loop(number \div BASE,
                               <<CHARSET[char_index + 1]>> \o encoded_str)
    ELSE [exc |-> "none", value |-> encoded_str]

encode_base62_nonpositive(number) ==
  IF number <= 0 THEN [exc |-> "ValueError", value |-> <<>>]
  ELSE encode_loop(number, <<>>)

\* encode_base62(number): the exception raised, or the string returned.
encode_base62(number) ==
  IF number < 0 THEN [exc |-> "ValueError", value |-> <<>>]
  ELSE IF number = 0 THEN [exc |-> "none", value |-> <<"0">>]
  ELSE encode_loop(number, <<>>)

\* The for loop of decode_base62 from position index (counted from 0);
\* CHARSET_MAP[char] raises KeyError for a char that is no key of the dict.
RECURSIVE decode_loop(_, _, _)
decode_loop(encoded_str, index, number) ==
  IF index >= Len(encoded_str)
    THEN [exc |-> "none", value |-> number]
    ELSE LET char == encoded_str[index + 1]
             pow_value == Len(encoded_str) - (index + 1)
         IN IF ~InCharset(char)
              THEN [exc |-> "KeyError", value |-> 0]
              ELSE decode_loop(encoded_str, index + 1,
                               number + CHARSET_MAP(char) * (BASE ^ pow_value))

\* decode_base62(encoded_str): the exception raised, or the integer returned.
decode_base62(encoded_str) == decode_loop(encoded_str, 0, 0)

\* The integers tried as input of encode_base62.
Numbers == (0 - MaxNegative)..MaxNumber

\* Characters of the strings tried as input of decode_base62: the first two
\* and the last of CHARSET, and three that CHARSET leaves out.
TextChars == {CHARSET[1], CHARSET[2], CHARSET[Len(CHARSET)], "0", "1", "l"}

Texts == UNION { [1..n -> TextChars] : n \in 0..MaxTextLen }

\* encode_base62(n) is called.
codec_encode ==
  /\ codec.pc = "idle"
  /\ \E n \in Numbers :
       codec' = [codec EXCEPT !.pc = "encoded", !.number = n,
                              !.encoded = encode_base62(n)]
  /\ UNCHANGED <<links, next_id, req, session, background, task_session,
                 failures, db, lifespan, gen>>

\* decode_base62 is called on the string encode_base62 returned.
codec_decode_encoded ==
  /\ codec.pc = "encoded"
  /\ codec.encoded.exc = "none"
  /\ codec' = [codec EXCEPT !.pc = "round_trip",
                            !.text = codec.encoded.value,
                            !.decoded = decode_base62(codec.encoded.value)]
  /\ UNCHANGED <<links, next_id, req, session, background, task_session,
                 failures, db, lifespan, gen>>

\* decode_base62(s) is called.
codec_decode ==
  /\ codec.pc = "idle"
  /\ \E s \in Texts :
       codec' = [codec EXCEPT !.pc = "decoded", !.text = s,
                              !.decoded = decode_base62(s)]
  /\ UNCHANGED <<links, next_id, req, session, background, task_session,
                 failures, db, lifespan, gen>>

\* The module utils/codec.py on its own: nothing else of the application runs.
CodecInit ==
  /\ links = {}
  /\ next_id = 1
  /\ req = [r \in Req |-> NewRequest]
  /\ session = [r \in Req |-> NewSession]
  /\ background = [r \in Req |-> NewBackground]
  /\ task_session = [r \in Req |-> NewSession]
  /\ failures = 0
  /\ db = NewDatabase
  /\ lifespan = "init"
  /\ codec = NewCodec
  /\ gen = NewGen

CodecNext ==
  \/ codec_encode
  \/ codec_decode_encoded
  \/ codec_decode

CodecSpec == CodecInit /\ [][CodecNext]_vars

\* ------------------------------------------------------------ generator
\* secrets.choice(seq): any element of seq.
choice(seq) == { seq[i] : i \in 1..Len(seq) }

generate_short_code_invalid_negative(length) == length < 0

\* The guard of generate_short_code for an integer argument: length < 1.
generate_short_code_invalid(length) == length < 1

\* generate_short_code(length) for any integer length: ValueError, or one of
\* the strings "".join(choice(CHARSET) for _ in range(length)) can be.  The
\* operator generate_short_code above is this set cut to NumCodes strings.
generate_short_code_call(length) ==
  IF generate_short_code_invalid(length)
    THEN [exc |-> "ValueError", values |-> {}]
    ELSE [exc |-> "none", values |-> [1..length -> choice(CHARSET)]]

\* The integers tried as argument of generate_short_code.
Lengths == (0 - MaxNegative)..MaxLength

\* generate_short_code(k) is called and raises or returns.
gen_call ==
  /\ gen.pc = "idle"
  /\ \E k \in Lengths :
       LET out == generate_short_code_call(k)
       IN IF out.exc # "none"
            THEN gen' = [pc |-> "done", length |-> k, exc |-> out.exc,
                         value |-> <<>>]
            ELSE \E v \in out.values :
                   gen' = [pc |-> "done", length |-> k, exc |-> "none",
                           value |-> v]
  /\ UNCHANGED <<links, next_id, req, session, background, task_session,
                 failures, db, lifespan, codec>>

\* The module utils/short_code_generator.py on its own.
GenInit == CodecInit

GenNext == gen_call

GenSpec == GenInit /\ [][GenNext]_vars

\* ----------------------------------------------------------------- claims
CreateReq == { r \in Req : req[r].kind = "create" }

\* The link a service call returned to its route.
Returned(r) == IF req[r].svc = "returned" THEN req[r].result ELSE {}

\* C1: the store never holds two Link records with the same short_code, and
\* the Links returned by successful create calls have pairwise distinct
\* short_code values, whatever the interleaving of the creators.
C1_ShortCodesDistinct ==
  /\ \A l1, l2 \in links : l1.short_code = l2.short_code => l1 = l2
  /\ \A r1, r2 \in CreateReq :
       \A l1 \in Returned(r1), l2 \in Returned(r2) :
         r1 # r2 => l1.short_code # l2.short_code

\* Two creators passed the existence check for the same candidate; one has
\* committed it and returned, the store refused the other's insert.
C1_Witness ==
  \E r1, r2 \in CreateReq :
    /\ r1 # r2
    /\ req[r1].svc = "returned"
    /\ req[r2].exc = "IntegrityError"
    /\ req[r1].short_code = req[r2].short_code
    /\ req[r1].result \subseteq links

\* C2: a uniqueness violation raised by the insert consumes one attempt and
\* create goes on with a fresh candidate: create never ends in the
\* IntegrityError while attempts are left.
C2_ViolationRetried ==
  \A r \in CreateReq :
    req[r].svc = "IntegrityError" => req[r].generated >= 5

\* C3: when all 5 candidates collide, create ends in ConflictException and
\* the call has written no row, committed or pending.
C3_ExhaustedConflict ==
  \A r \in CreateReq :
    req[r].attempt >= 5 =>
      /\ req[r].svc = "ConflictException"
      /\ req[r].written = {}
      /\ session[r].added = {}
      /\ req[r].pc = "done" => req[r].response.status = 409

\* Five collisions in a row, answered with 409, the store still holding only
\* the rows it held.
C3_Witness ==
  \E r \in CreateReq :
    /\ req[r].pc = "done"
    /\ req[r].attempt = 5
    /\ req[r].response.status = 409
    /\ Cardinality(links) = NumCodes

\* C4: create gives up only when the budget is used up, and it returns on
\* the first candidate found absent: the returned code is that candidate, it
\* differs from every discarded (colliding) candidate, every earlier attempt
\* was a collision and at most 5 candidates were generated; with no store
\* exception a call that found a free candidate returns.
C4_SucceedsOnFirstFree ==
  \A r \in CreateReq :
    /\ req[r].svc = "ConflictException" => req[r].attempt >= 5
    /\ \A l \in Returned(r) :
         /\ l.short_code = req[r].short_code
         /\ l.short_code \notin req[r].discarded
         /\ req[r].attempt = req[r].generated - 1
         /\ req[r].generated <= 5
         /\ \E k \in links : k.id = l.id /\ k.short_code = l.short_code
    /\ ( /\ req[r].pc = "done"
         /\ req[r].generated > req[r].attempt
         /\ ~req[r].store_failed
         /\ req[r].svc # "IntegrityError" ) => req[r].svc = "returned"

\* The first candidate collided with a stored code, the second was free and
\* was returned.
C4_Witness ==
  \E r \in CreateReq :
    /\ req[r].svc = "returned"
    /\ req[r].attempt = 1
    /\ req[r].generated = 2
    /\ req[r].discarded # {}
    /\ req[r].short_code \notin req[r].discarded

\* C5 (bound): a create call generates at most 5 candidates and makes at most
\* 5 existence checks, and it ends in a returned Link, in ConflictException
\* or in a propagated store exception.
C5_Bounded ==
  \A r \in CreateReq :
    /\ req[r].generated <= 5
    /\ req[r].checked <= 5
    /\ req[r].pc = "done" =>
         req[r].svc \in {"returned", "ConflictException", "DBAPIError",
                         "IntegrityError"}

\* C5: every create call terminates within its budget of 5 attempts, in one
\* of the three outcomes.
C5_Terminates ==
  /\ []C5_Bounded
  /\ \A r \in Req : (req[r].kind = "create") ~> (req[r].pc = "done")

\* A create call that used all 5 attempts and has ended.
C5_Witness ==
  \E r \in CreateReq : req[r].pc = "done" /\ req[r].generated = 5

\* C6: a store failure during create reaches the caller only after the
\* session has been rolled back, and no row the failed call wrote is in the
\* store.
C6_FailureAfterRollback ==
  \A r \in CreateReq :
    req[r].store_failed =>
      /\ \A l \in links : l.id \notin req[r].written
      /\ req[r].response.status # 0 =>
           /\ session[r].rolled_back
           /\ session[r].added = {}
           /\ req[r].response.status = 500

\* A create call whose attempt had inserted a row when the store failed has
\* been answered with 500.
C6_Witness ==
  \E r \in CreateReq :
    /\ req[r].store_failed
    /\ req[r].written # {}
    /\ req[r].response.status = 500

\* C7: a resolve that finds the Link redirects to the original_url stored for
\* the requested code and schedules exactly one increment, for that code.
C7_ResolveSchedulesOne ==
  \A r \in Req :
    (req[r].kind = "resolve" /\ req[r].svc = "returned") =>
      /\ req[r].response.status = 307
      /\ \A l \in req[r].result :
           /\ l.short_code = req[r].code
           /\ req[r].response.original_url = l.original_url
           /\ \E k \in links : k.short_code = req[r].code
                               /\ k.original_url = req[r].response.original_url
      /\ background[r].scheduled = <<req[r].code>>

\* A resolve of a stored code has redirected and scheduled its increment.
C7_Witness ==
  \E r \in Req :
    /\ req[r].kind = "resolve"
    /\ req[r].response.status = 307
    /\ req[r].response.original_url \in Urls
    /\ Len(background[r].scheduled) = 1

\* C8: resolve and details on a code no stored Link has end in
\* NotFoundException (404, urllink_not_found) whenever the lookup itself
\* was answered, and schedule nothing.
C8_UnknownNotFound ==
  \A r \in Req :
    ( /\ req[r].kind \in {"resolve", "details"}
      /\ req[r].pc = "done"
      /\ ~req[r].store_failed
      /\ ~\E l \in links : l.short_code = req[r].code ) =>
      /\ req[r].svc = "NotFoundException"
      /\ req[r].response.status = 404
      /\ req[r].response.type = "urllink_not_found"
      /\ background[r].scheduled = <<>>

\* A resolve and a details request for codes the store lacks, both answered 404.
C8_Witness ==
  \E r1, r2 \in Req :
    /\ req[r1].kind = "resolve" /\ req[r1].response.status = 404
    /\ req[r2].kind = "details" /\ req[r2].response.status = 404

\* The resolve calls that found the Link of code c.
Resolved(c) ==
  { r \in Req : req[r].kind = "resolve" /\ req[r].code = c
                /\ req[r].response.status = 307 }

\* Every increment scheduled for code c has run to its end without failure.
IncrementsCompleted(c) ==
  \A r \in Resolved(c) :
    /\ background[r].queue = <<>>
    /\ Len(background[r].results) = Len(background[r].scheduled)
    /\ \A i \in 1..Len(background[r].results) : background[r].results[i] = "ok"

\* C9: once the increments of K resolve calls for one code have all
\* completed, the Link's click_count has grown by exactly K (from 0).
C9_NoLostUpdate ==
  \A l \in links :
    IncrementsCompleted(l.short_code) =>
      l.click_count = Cardinality(Resolved(l.short_code))

\* Two resolve calls for the same code, both increments completed.
C9_Witness ==
  \E l \in links :
    /\ Cardinality(Resolved(l.short_code)) = 2
    /\ IncrementsCompleted(l.short_code)
    /\ l.click_count = 2

\* C10: a created Link starts with click_count 0, and a details request that
\* looks the Link up after its one increment has completed succeeds and
\* reports click_count 1 with the Link's short_code and original_url.
C10_DetailsAfterOneClick ==
  /\ \A r \in CreateReq : \A l \in req[r].result : l.click_count = 0
  /\ \A r \in Req :
       ( /\ req[r].kind = "details"
         /\ req[r].pc = "done"
         /\ req[r].svc = "returned" ) =>
         \A l \in req[r].result :
           l.click_count = 1 =>
             /\ req[r].response.status = 200
             /\ req[r].response.click_count = 1
             /\ req[r].response.short_code = l.short_code
             /\ req[r].response.original_url = l.original_url

\* C11: perform_click_increment never lets a failure out: every run of the
\* task ends normally, with success or with a failure that was only logged,
\* whether the session, the increment statement or the commit failed.
C11_FailureOnlyLogged ==
  \A r \in Req :
    \A i \in 1..Len(background[r].results) :
      background[r].results[i] \in {"ok", "failed"}

\* The click increment of request r has been started at least once.
TaskStarted(r) ==
  background[r].pc # "idle" \/ background[r].results # <<>>

\* C12: the increment scheduled by get_link starts only after the redirect
\* response has been produced, and the redirect (status 307 to the Link's
\* original_url) stays as produced whether the increment succeeds, fails or
\* never runs.
C12_RedirectBeforeIncrement ==
  /\ [](\A r \in Req :
          TaskStarted(r) =>
            /\ req[r].response.status = 307
            /\ \A l \in req[r].result :
                 req[r].response.original_url = l.original_url)
  /\ [][\A r \in Req :
          req[r].response.status = 307 => req'[r].response = req[r].response]_vars

\* Two redirects of one code: the increment of one failed, the other succeeded
\* and both responses carry the same original_url.
C12_Witness ==
  \E r, q \in Req :
    /\ req[r].response.status = 307 /\ req[q].response.status = 307
    /\ req[r].code = req[q].code
    /\ background[r].results = <<"failed">>
    /\ background[q].results = <<"ok">>
    /\ req[r].response.original_url = req[q].response.original_url

\* The increment of request r holds its session.
TaskRunning(r) == background[r].pc \in {"increment", "commit", "exit"}

\* C13: each increment runs in a session of its own: it is open while the
\* task runs whatever happened to the request session, no step changes both
\* sessions, and the commit of the increment adds no row to the table.
C13_OwnSession ==
  /\ [](\A r \in Req :
          TaskRunning(r) =>
            task_session[r].state = "open" /\ task_session[r].closes = 0)
  /\ [][/\ task_session' # task_session => session' = session
        /\ \A r \in Req :
             background[r].pc = "commit" /\ background'[r].pc = "exit" =>
               { l.id : l \in links' } = { l.id : l \in links }]_vars

\* The request session is closed while the increment, its UPDATE done, is
\* about to commit in its open session.
C13_Witness ==
  \E r \in Req :
    /\ background[r].pc = "commit"
    /\ session[r].state = "closed"
    /\ task_session[r].state = "open"
    /\ task_session[r].incs # {}

\* C14: click_count is a non-negative integer, never decreases from one step
\* to the next, and changes only in the commit of an increment task.
C14_ClickCountMonotonic ==
  /\ [](\A l \in links : l.click_count \in Nat)
  /\ [][\A l \in links : \A m \in links' :
          m.id = l.id =>
            /\ m.click_count >= l.click_count
            /\ m.click_count # l.click_count =>
                 \E r \in Req : /\ background[r].pc = "commit"
                                /\ background'[r].pc = "exit"
                                /\ background'[r].results
                                     = Append(background[r].results, "ok")]_vars

\* A Link counted once while create, resolve and details requests were served.
C14_Witness ==
  /\ \E l \in links : l.click_count = 1
  /\ \E r \in Req : req[r].kind = "create" /\ req[r].svc = "returned"

\* C15: once committed, a Link keeps its original_url and its short_code and
\* is never removed.
C15_LinkImmutable ==
  [][\A l \in links :
       \E m \in links' :
         /\ m.id = l.id
         /\ m.original_url = l.original_url
         /\ m.short_code = l.short_code]_vars

\* Two committed Links, one of them counted by an increment.
C15_Witness ==
  /\ Cardinality(links) >= 2
  /\ \E l \in links : l.click_count >= 1

\* A call of encode_base62 has returned or raised.
Encoded == codec.pc \in {"encoded", "round_trip"}

\* C16: for every n >= 0, encode_base62(n) returns a string and
\* decode_base62 of that string returns n.
C16_RoundTrip ==
  (Encoded /\ codec.number >= 0) =>
    /\ codec.encoded.exc = "none"
    /\ codec.pc = "round_trip" =>
         codec.decoded.exc = "none" /\ codec.decoded.value = codec.number

\* C17: encode_base62(0) returns one non-empty token, and decode_base62 of
\* that token returns 0 and raises nothing.
C17_ZeroToken ==
  (Encoded /\ codec.number = 0) =>
    /\ codec.encoded.exc = "none"
    /\ Len(codec.encoded.value) >= 1
    /\ codec.pc = "round_trip" =>
         codec.decoded.exc = "none" /\ codec.decoded.value = 0

\* C18: for every n >= 0, encode_base62(n) raises nothing and every
\* character of its result is a character of CHARSET.
C18_EncodeInCharset ==
  (Encoded /\ codec.number >= 0) =>
    /\ codec.encoded.exc = "none"
    /\ \A i \in 1..Len(codec.encoded.value) : InCharset(codec.encoded.value[i])

\* C19: decode_base62 raises ValueError when its input has a character
\* outside CHARSET, and returns an integer otherwise.
C19_DecodeValueError ==
  codec.pc = "decoded" =>
    IF \E i \in 1..Len(codec.text) : ~InCharset(codec.text[i])
      THEN codec.decoded.exc = "ValueError"
      ELSE codec.decoded.exc = "none" /\ codec.decoded.value \in Int

\* C20: encode_base62 raises ValueError for every negative input and for no
\* input that is zero or positive.
C20_EncodeValueError ==
  Encoded => (codec.encoded.exc = "ValueError" <=> codec.number < 0)

\* A negative input was refused with ValueError.
C20_Witness ==
  /\ codec.pc = "encoded"
  /\ codec.number < 0
  /\ codec.encoded.exc = "ValueError"

\* C21: generate_short_code(k) returns, for every integer k >= 1, a string of
\* exactly k characters of CHARSET, and raises ValueError for every k < 1.
C21_GenerateLength ==
  gen.pc = "done" =>
    IF gen.length >= 1
      THEN /\ gen.exc = "none"
           /\ Len(gen.value) = gen.length
           /\ \A i \in 1..Len(gen.value) : InCharset(gen.value[i])
      ELSE gen.exc = "ValueError"

\* A call with length 2 returned two different characters, the last one of
\* CHARSET among them.
C21_Witness ==
  /\ gen.pc = "done"
  /\ gen.length = 2
  /\ Len(gen.value) = 2
  /\ gen.value[1] # gen.value[2]
  /\ gen.value[2] = CHARSET[Len(CHARSET)]

\* C22: a create_link request whose Link was committed is answered with
\* success (201) carrying the Link's short_code, original_url and short_url;
\* no request ends in an error with its Link committed.
C22_CommittedCreateSucceeds ==
  \A r \in CreateReq :
    (req[r].pc = "done" /\ \E l \in links : l.id \in req[r].written) =>
      /\ req[r].response.status = 201
      /\ req[r].response.short_url # {}
      /\ \A l \in req[r].result :
           /\ req[r].response.short_code = l.short_code
           /\ req[r].response.original_url = l.original_url

\* The ids of the rows in rows.
Ids(rows) == { l.id : l \in rows }

\* C23: insert, refresh and commit of create are one unit of work: the Link
\* create returns is in the store with the given original_url, the candidate
\* as short_code and click_count 0 when it appears, it is the only row of
\* the call in the store, and a call that has not returned has none there.
C23_AtomicCreate ==
  /\ [](\A r \in CreateReq :
          /\ Ids(links) \cap req[r].written = Ids(Returned(r))
          /\ \A l \in Returned(r) :
               /\ l.original_url = req[r].url
               /\ l.short_code = req[r].short_code
               /\ l.click_count = 0
               /\ \E m \in links : /\ m.id = l.id
                                    /\ m.original_url = l.original_url
                                    /\ m.short_code = l.short_code)
  /\ [][\A m \in links' :
          m.id \notin Ids(links) =>
            /\ m.click_count = 0
            /\ \E r \in Req : req[r].pc = "commit" /\ Returned(r)' = {m}]_vars

\* A create call returned its Link after an earlier attempt of another call
\* had been rolled back.
C23_Witness ==
  \E r, q \in CreateReq :
    /\ Returned(r) # {}
    /\ Returned(r) \subseteq links
    /\ req[q].store_failed /\ req[q].written # {} /\ req[q].pc = "done"

\* C24: every Link in the store has a short_code of length 6 made of
\* characters of CHARSET only, hence within the column limit of 25.
C24_ShortCodeShape ==
  \A l \in links :
    /\ Len(l.short_code) = DefaultLength
    /\ \A i \in 1..Len(l.short_code) : InCharset(l.short_code[i])
    /\ Len(l.short_code) <= ColumnLimit

\* The store holds a Link that a create call of this run has committed.
C24_Witness ==
  \E r \in CreateReq :
    \E l \in Returned(r) : \E m \in links : m.id = l.id /\ Len(m.short_code) = 6

\* Request r arrives in this step.
Arrives(r) == req[r].pc = "idle" /\ req'[r].pc # "idle"

\* The runner takes the increment task of request r in this step.
TaskTaken(r) ==
  /\ background[r].pc = "idle"
  /\ background[r].queue # <<>>
  /\ background'[r] # background[r]

\* C25: Database.session() raises RuntimeError and yields no session exactly
\* when there is no session factory, which is the case before connect() and
\* after disconnect(); after disconnect() engine and session_factory are
\* both None, and a second disconnect() changes nothing.
C25_SessionNeedsConnection ==
  /\ [](lifespan \in Ended \cup {"init"} => db = NewDatabase)
  /\ [][\A r \in Req :
          /\ Arrives(r) =>
               IF db.session_factory
                 THEN req'[r].exc = "none" /\ session'[r].state = "open"
                 ELSE req'[r].exc = "RuntimeError" /\ session'[r] = NewSession
          /\ TaskTaken(r) =>
               IF db.session_factory
                 THEN /\ background'[r].pc = "increment"
                      /\ task_session'[r].state = "open"
                 ELSE /\ background'[r].results
                           = Append(background[r].results, "RuntimeError")
                      /\ task_session'[r] = task_session[r]]_vars
  /\ [][lifespan' = "disconnected_again" => db' = db]_vars

\* disconnect() has been called twice; one request was refused a session
\* and another one was given its session while the database was connected.
C25_Witness ==
  /\ lifespan = "disconnected_again"
  /\ db = NewDatabase
  /\ \E r, q \in Req :
       /\ req[r].exc = "RuntimeError" /\ session[r] = NewSession
       /\ session[q].closes = 1

\* C27: the lifespan always ends with disconnect(): after a failed
\* connection check, after a normal end and after an exception of the running
\* application the finally block runs, and once the lifespan has ended engine
\* and session_factory are None; after a failed connect() the application is
\* never started.
C27_LifespanDisconnects ==
  /\ [](lifespan \in Ended => ~db.engine /\ ~db.session_factory)
  /\ [][lifespan' = "running" => lifespan \in {"verify", "running"}]_vars
  /\ [][lifespan = "failed" => lifespan' \in {"failed", "aborted"}]_vars
  /\ (lifespan \in {"failed", "stopping", "raising"}) ~> (lifespan \in Ended)

\* The lifespan ended after an exception of the running application, with
\* requests served before.
C27_Witness ==
  /\ lifespan = "crashed"
  /\ db = NewDatabase
  /\ \E r \in Req : req[r].pc = "done" /\ session[r].closes = 1

\* C26: every session Database.session hands out is closed exactly once
\* when its block is left, on a normal exit and on an exception alike; on an
\* exception the session is rolled back as well and the same exception goes
\* on to the caller.
C26_SessionClosedOnce ==
  /\ [](\A r \in Req :
          /\ session[r].closes <= 1 /\ task_session[r].closes <= 1
          /\ (req[r].pc = "done" /\ session[r].state # "none") =>
               session[r].state = "closed" /\ session[r].closes = 1
          /\ (background[r].pc = "idle" /\ background[r].results # <<>>) =>
               task_session[r].state = "closed" /\ task_session[r].closes = 1)
  /\ [][\A r \in Req :
          (req[r].pc = "session_exit" /\ req'[r].pc = "done") =>
            /\ session[r].state = "open"
            /\ session'[r].state = "closed"
            /\ req'[r].exc = req[r].exc
            /\ session'[r].rolled_back
                 = (session[r].rolled_back \/ req[r].exc # "none")
            /\ req[r].exc # "none" =>
                 req'[r].response.status = exception_handler(req[r].exc).status]_vars

\* One request left its session block normally (redirect), another one with
\* an exception (404), and an increment task has left its block.
C26_Witness ==
  \E r, q \in Req :
    /\ req[r].pc = "done" /\ req[r].response.status = 307
    /\ session[r].closes = 1 /\ ~session[r].rolled_back
    /\ task_session[r].closes = 1
    /\ req[q].pc = "done" /\ req[q].response.status = 404
    /\ session[q].closes = 1 /\ session[q].rolled_back

\* The increments of code c that were committed.
Counted(c) ==
  { r \in Req : /\ background[r].scheduled = <<c>>
                /\ background[r].results = <<"ok">> }

\* C28: an increment that fails in its statement or in its commit leaves the
\* click_count of every Link as it was: the step that fails changes no row,
\* the session of the failed task ends closed with nothing pending, and
\* every click_count is the number of increments that succeeded.
C28_FailedIncrementNoEffect ==
  /\ [](\A r \in Req :
          (background[r].pc = "idle" /\ background[r].results = <<"failed">>) =>
            /\ task_session[r].state = "closed"
            /\ task_session[r].incs = {})
  /\ [](\A l \in links : l.click_count = Cardinality(Counted(l.short_code)))
  /\ [][\A r \in Req :
          background'[r].results = Append(background[r].results, "failed") =>
            links' = links]_vars

\* The increment of a redirect failed and its session is closed; the Link
\* still has click_count 0.
C28_Witness ==
  \E r \in Req :
    /\ background[r].pc = "idle"
    /\ background[r].results = <<"failed">>
    /\ task_session[r].state = "closed"
    /\ \E l \in links : l.short_code = req[r].code /\ l.click_count = 0

\* C29: a resolve that fails (unknown code, or store failure in the lookup)
\* schedules no increment and details never schedules one, so the
\* click_count of a Link never exceeds the number of resolve calls that
\* found it.
C29_OnlyFoundResolveCounts ==
  /\ \A r \in Req :
       background[r].scheduled # <<>> =>
         req[r].kind = "resolve" /\ req[r].svc = "returned"
  /\ \A l \in links : l.click_count <= Cardinality(Resolved(l.short_code))

\* A resolve lost to a store failure and a details request that found its
\* Link have both ended with nothing scheduled.
C29_Witness ==
  \E r, q \in Req :
    /\ req[r].kind = "resolve" /\ req[r].store_failed /\ req[r].pc = "done"
    /\ req[q].kind = "details" /\ req[q].svc = "returned" /\ req[q].pc = "done"
    /\ background[r].scheduled = <<>> /\ background[q].scheduled = <<>>

\* C30: an exhausted retry budget is answered 409 urllink_conflict, a lookup
\* miss 404 urllink_not_found, every other exception 500
\* unhandled_server_error; a conflict or a miss is never answered 500.
C30_ErrorStatus ==
  \A r \in Req :
    req[r].pc = "done" =>
      /\ req[r].exc = "ConflictException" <=>
           (req[r].kind = "create" /\ req[r].attempt = attempts)
      /\ req[r].exc = "ConflictException" =>
           /\ req[r].response.status = 409
           /\ req[r].response.type = "urllink_conflict"
      /\ req[r].exc = "NotFoundException" =>
           /\ req[r].response.status = 404
           /\ req[r].response.type = "urllink_not_found"
      /\ req[r].exc \notin {"none", "ConflictException", "NotFoundException"} =>
           /\ req[r].response.status = 500
           /\ req[r].response.type = "unhandled_server_error"

\* One request answered 409 after five collisions, another one answered 500.
C30_Witness ==
  \E r, q \in Req :
    /\ req[r].pc = "done" /\ req[r].response.status = 409
    /\ req[q].pc = "done" /\ req[q].response.status = 500

====
